---- MODULE Spec2Model ----
(***************************************************************************)
(* Media Resizer API (src/backend/main.py): the asynchronous job engine.   *)
(*                                                                         *)
(* The three global dictionaries progress_store, status_store and          *)
(* result_store are shared by                                              *)
(*   - the upload handler resize_media (run on the event loop),            *)
(*   - one background task process_file per accepted upload (a plain def,  *)
(*     so the framework runs it on a worker thread after the response),    *)
(*   - the handlers get_progress and get_result (plain defs, run on worker *)
(*     threads).                                                           *)
(* Nothing locks the dictionaries, so the threads interleave between any   *)
(* two dictionary accesses.  Every action below performs at most one write *)
(* to the shared dictionaries, together with the thread-local computation  *)
(* that precedes it.                                                       *)
(***************************************************************************)
EXTENDS Integers, Sequences, FiniteSets, TLC

\* Number of uploads the model accepts.
MaxJobs == 2
\* Largest declared frame count, and largest number of frames decoded.
MaxFrames == 3

Ids == 1..MaxJobs

\* A key that is not in progress_store / status_store / result_store.
\* Every value the code stores as a progress is 0, 20, 80, 100 or
\* int((k / total) * 100) with 1 <= k <= MaxFrames and total an integer
\* other than 0, which is at least -100 * MaxFrames: the number below all
\* of them stands for the missing key.
NoProgress == -(100 * MaxFrames) - 1
NoStatus == "absent"
NoResult == 0

\* Extensions offered to the upload handler (the text after the last dot of
\* the client's file name, lowered): one per dispatch branch of
\* process_file, one that no branch accepts, and one that holds a path
\* separator (file name "photos.2024/IMG_0001").
Exts == {"png", "gif", "mp4", "txt", "2024/img_0001"}

\* The extensions for which input.<ext> is not a file name directly inside
\* the task directory: open(input_path, "wb") raises for them.
NoFileExts == {"2024/img_0001"}

VARIABLES
    progress_store,   \* [Ids -> Int]: progress_store[id], NoProgress if no key
    status_store,     \* [Ids -> STRING]: status_store[id], NoStatus if no key
    result_store,     \* [Ids -> Nat]: id of the task directory whose
                      \*   output.<ext> is recorded, NoResult if no key
    uploads,          \* number of upload requests handled so far
    ext,              \* [Ids -> STRING]: extension of the uploaded file
    pc,               \* [Ids -> STRING]: position of the upload handler, then
                      \*   of the background task, of each job
    total,            \* [Ids -> Int]: local total / total_frames of the adapter
    done,             \* [Ids -> Nat]: local frame_count / i + 1 of the adapter
    outfile,          \* [Ids -> BOOLEAN]: output.<ext> exists on disk
    exc,              \* [Ids -> STRING]: the exception on its way to the
                      \*   except clause of process_file, "" if none
    sc,               \* one computation of a target size: its inputs and
                      \*   its result (used by ScaleSpec only)
    req,              \* the get_progress request in flight
    resp              \* the last response sent by get_progress or get_result

vars == <<progress_store, status_store, result_store, uploads, ext, pc,
          total, done, outfile, exc, sc, req, resp>>

stores == <<progress_store, status_store, result_store>>
locals == <<total, done>>
client == <<req, resp>>
calc == <<sc>>

\* No computation of a target size is being looked at.
NoScale == [kind |-> "none"]

NoReq == [id |-> 0, status |-> ""]
NoResp == [ep |-> "none", id |-> 0, code |-> 0, status |-> "", progress |-> 0]

\* ------------------------------------------------------------------------
\* Pure helpers

\* MediaKind with the image branch as the fallback for any other extension.
MediaKind_lenient(e) ==
    IF e = "gif" THEN "gif"
    ELSE IF e \in {"mp4", "mov", "avi", "mkv", "3gp"} THEN "video"
    ELSE "image"

\* The branch of process_file an extension takes.
MediaKind(e) ==
    IF e \in {"jpeg", "jpg", "png"} THEN "image"
    ELSE IF e = "gif" THEN "gif"
    ELSE IF e \in {"mp4", "mov", "avi", "mkv", "3gp"} THEN "video"
    ELSE "unsupported"

\* int((k / n) * 100) for n # 0 and k >= 0; int truncates towards zero.
\* The float product equals the exact quotient truncated for every k and
\* |n| below 50 (the first deviation is k = 29, n = 50), so integer
\* division models it within the bounds.
IntProgress(k, n) ==
    IF n > 0 THEN (k * 100) \div n ELSE -((k * 100) \div (-n))

\* Source widths and heights, and percentages, offered to the computation
\* of a target size.
Dims == {1, 2, 100, 200}
Pcts == {0, 1, 13, 29, 50, 100}

\* The pairs (w, q), w in Dims and q or q - 100 in Pcts, for which the
\* double product w * (q / 100) falls just below the integer w * q / 100.
FloatShort == {<<100, 29>>, <<200, 29>>, <<100, 113>>, <<200, 113>>}

\* int(w * (q / 100)): w times the double nearest to q / 100, truncated.
\* For the sizes and percentages above this is the exact quotient
\* truncated, except for the pairs of FloatShort, where it is one less.
ScaledDim(w, q) ==
    IF <<w, q>> \in FloatShort THEN (w * q) \div 100 - 1 ELSE (w * q) \div 100

\* pure_upscale: scale = (100 + percentage) / 100.0,
\* new_size = (int(width * scale), int(height * scale)).
pure_upscale(w, h, p) == <<ScaledDim(w, 100 + p), ScaledDim(h, 100 + p)>>

\* pure_resize: new_size = (int(width * percentage / 100),
\* int(height * percentage / 100)); the product is an exact integer, so
\* the quotient truncates exactly.
pure_resize(w, h, p) == <<(w * p) \div 100, (h * p) \div 100>>

\* resize_image, lines 144-149.
image_new_size(w, h, p, up) ==
    IF up THEN pure_upscale(w, h, p) ELSE pure_resize(w, h, p)

\* resize_video, lines 178-183: scale = (100 + percentage) / 100 or
\* percentage / 100, new_size = (int(width * scale), int(height * scale)).
video_new_size(w, h, p, up) ==
    LET q == IF up THEN 100 + p ELSE p
    IN  <<ScaledDim(w, q), ScaledDim(h, q)>>

\* resize_gif, lines 224 and 230: the same expression, for every frame.
gif_new_size(w, h, p, up) ==
    LET q == IF up THEN 100 + p ELSE p
    IN  <<ScaledDim(w, q), ScaledDim(h, q)>>

\* str(uuid.uuid4()): an identifier no earlier upload received.  Identifiers
\* are opaque, so the least unused one stands for any unused one.
uuid4 ==
    LET unused == {j \in Ids : progress_store[j] = NoProgress}
    IN  {j \in unused : \A k \in unused : j <= k}

TypeOK ==
    /\ progress_store \in [Ids -> Int]
    /\ status_store \in [Ids -> {NoStatus, "processing", "completed", "failed"}]
    /\ result_store \in [Ids -> {NoResult} \cup Ids]
    /\ uploads \in 0..MaxJobs
    /\ ext \in [Ids -> Exts \cup {""}]
    /\ total \in [Ids -> (-MaxFrames)..MaxFrames]
    /\ done \in [Ids -> 0..MaxFrames]
    /\ outfile \in [Ids -> BOOLEAN]
    /\ exc \in [Ids -> {"", "error", "ZeroDivisionError",
                        "Unsupported file format"}]

JobInit ==
    /\ progress_store = [j \in Ids |-> NoProgress]
    /\ status_store = [j \in Ids |-> NoStatus]
    /\ result_store = [j \in Ids |-> NoResult]
    /\ uploads = 0
    /\ ext = [j \in Ids |-> ""]
    /\ pc = [j \in Ids |-> "none"]
    /\ total = [j \in Ids |-> 0]
    /\ done = [j \in Ids |-> 0]
    /\ outfile = [j \in Ids |-> FALSE]
    /\ exc = [j \in Ids |-> ""]
    /\ req = NoReq
    /\ resp = NoResp

Init ==
    /\ JobInit
    /\ sc = NoScale

\* ------------------------------------------------------------------------
\* POST /resize

\* Lines 75-76: a fresh task id, progress_store[task_id] = 0.  The handler
\* is a coroutine that does not await before line 92, so no other upload
\* handler runs between its lines 75 and 77; worker threads do.
resize_media_create(e) ==
    /\ uploads < MaxJobs
    /\ \A k \in Ids : pc[k] # "create"
    /\ \E j \in uuid4 :
        /\ progress_store' = [progress_store EXCEPT ![j] = 0]
        /\ ext' = [ext EXCEPT ![j] = e]
        /\ pc' = [pc EXCEPT ![j] = "create"]
    /\ uploads' = uploads + 1
    /\ UNCHANGED <<status_store, result_store, locals, outfile, exc, calc, client>>

\* Lines 77-91, which the coroutine runs without returning to the event
\* loop: status_store[task_id] = "processing", then the task directory is
\* made and input.<ext> is opened.  mkdtemp and open can raise, and open
\* does raise when the extension holds a path separator: the exception
\* leaves the handler, which has no try, so the request is answered with a
\* server error, no task is added, and the entries written at lines 76-77
\* stay.  Otherwise the coroutine is suspended at `await file.read()`
\* (line 92), and other handlers, tasks and requests run meanwhile.
resize_media_accept(j) ==
    /\ pc[j] = "create"
    /\ status_store' = [status_store EXCEPT ![j] = "processing"]
    /\ \/ pc' = [pc EXCEPT ![j] = "raised"]
       \/ /\ ext[j] \notin NoFileExts
          /\ pc' = [pc EXCEPT ![j] = "saving"]
    /\ UNCHANGED <<progress_store, result_store, uploads, ext, exc, calc, locals,
                   outfile, client>>

\* Lines 92-99: the coroutine is resumed with the bytes of the upload,
\* writes them to input.<ext> and adds process_file to the background
\* tasks.  file.read() and write can raise, with the same outcome as above.
resize_media_save(j) ==
    /\ pc[j] = "saving"
    /\ \/ pc' = [pc EXCEPT ![j] = "raised"]
       \/ pc' = [pc EXCEPT ![j] = "accepted"]
    /\ UNCHANGED <<stores, uploads, ext, exc, calc, locals, outfile, client>>

\* Line 101: the response {task_id, status: "processing"} is sent; the
\* framework runs the background task only after that.
resize_media_return(j) ==
    /\ pc[j] = "accepted"
    /\ pc' = [pc EXCEPT ![j] = "queued"]
    /\ UNCHANGED <<stores, uploads, ext, exc, calc, locals, outfile, client>>

\* ------------------------------------------------------------------------
\* process_file: the background task of job j

\* process_file_start for a task that add_task starts at once, before the
\* handler has returned its response.
process_file_start_eager(j) ==
    /\ pc[j] = "accepted"
    /\ pc' = [pc EXCEPT ![j] =
                CASE MediaKind(ext[j]) = "image" -> "img_read"
                  [] MediaKind(ext[j]) = "gif" -> "gif_open"
                  [] MediaKind(ext[j]) = "video" -> "vid_open"
                  [] OTHER -> "except"]
    /\ exc' = [exc EXCEPT ![j] =
                 IF MediaKind(ext[j]) = "unsupported"
                 THEN "Unsupported file format" ELSE ""]
    /\ UNCHANGED <<stores, uploads, ext, calc, locals, outfile, client>>

\* Lines 108-118: the dispatch on the extension; an extension no branch
\* accepts raises "Unsupported file format".
process_file_start(j) ==
    /\ pc[j] = "queued"
    /\ pc' = [pc EXCEPT ![j] =
                CASE MediaKind(ext[j]) = "image" -> "img_read"
                  [] MediaKind(ext[j]) = "gif" -> "gif_open"
                  [] MediaKind(ext[j]) = "video" -> "vid_open"
                  [] OTHER -> "except"]
    /\ exc' = [exc EXCEPT ![j] =
                 IF MediaKind(ext[j]) = "unsupported"
                 THEN "Unsupported file format" ELSE ""]
    /\ UNCHANGED <<stores, uploads, ext, calc, locals, outfile, client>>

\* The exception e leaves the adapter: its locals are gone and control is
\* at the except clause of process_file (line 126).
RaiseAs(j, e) ==
    /\ pc' = [pc EXCEPT ![j] = "except"]
    /\ exc' = [exc EXCEPT ![j] = e]
    /\ total' = [total EXCEPT ![j] = 0]
    /\ done' = [done EXCEPT ![j] = 0]
    /\ UNCHANGED <<stores, uploads, ext, calc, outfile, client>>

\* A call of the image or video library raises (or the adapter raises
\* because the library could not read the file).
Raise(j) == RaiseAs(j, "error")

\* resize_image, lines 138-142: cv.imread; None raises, otherwise
\* progress_store[task_id] = 20.
resize_image_read(j) ==
    /\ pc[j] = "img_read"
    /\ \/ Raise(j)
       \/ /\ progress_store' = [progress_store EXCEPT ![j] = 20]
          /\ pc' = [pc EXCEPT ![j] = "img_scale"]
          /\ UNCHANGED <<status_store, result_store, uploads, ext, exc, calc, locals,
                         outfile, client>>

\* resize_image, lines 144-151: pure_upscale / pure_resize (cv.resize raises
\* on an empty target size), then progress_store[task_id] = 80.
resize_image_scale(j) ==
    /\ pc[j] = "img_scale"
    /\ \/ Raise(j)
       \/ /\ progress_store' = [progress_store EXCEPT ![j] = 80]
          /\ pc' = [pc EXCEPT ![j] = "img_write"]
          /\ UNCHANGED <<status_store, result_store, uploads, ext, exc, calc, locals,
                         outfile, client>>

\* resize_image, lines 153-158: cv.imwrite raises, or returns whether the
\* file was written; its return value is not looked at.
resize_image_write(j) ==
    /\ pc[j] = "img_write"
    /\ \/ Raise(j)
       \/ /\ \E written \in BOOLEAN : outfile' = [outfile EXCEPT ![j] = written]
          /\ pc' = [pc EXCEPT ![j] = "return"]
          /\ UNCHANGED <<stores, uploads, ext, exc, calc, locals, client>>

\* resize_gif, lines 217-224: Image.open and the list of frames (at least
\* one frame, or the open raises).
resize_gif_open(j) ==
    /\ pc[j] = "gif_open"
    /\ \/ Raise(j)
       \/ /\ \E n \in 1..MaxFrames : total' = [total EXCEPT ![j] = n]
          /\ done' = [done EXCEPT ![j] = 0]
          /\ pc' = [pc EXCEPT ![j] = "gif_frame"]
          /\ UNCHANGED <<stores, uploads, ext, exc, calc, outfile, client>>

\* resize_gif, lines 226-234: one iteration of the frame loop;
\* progress_store[task_id] = int(((i + 1) / total_frames) * 100).
resize_gif_frame(j) ==
    /\ pc[j] = "gif_frame"
    /\ \/ Raise(j)
       \/ /\ done' = [done EXCEPT ![j] = done[j] + 1]
          /\ progress_store' = [progress_store EXCEPT ![j] =
                                  IntProgress(done[j] + 1, total[j])]
          /\ pc' = [pc EXCEPT ![j] =
                      IF done[j] + 1 = total[j] THEN "gif_save" ELSE "gif_frame"]
          /\ UNCHANGED <<status_store, result_store, uploads, ext, exc, calc, total,
                         outfile, client>>

\* resize_gif, lines 236-240: processed[0].save(...).
resize_gif_save(j) ==
    /\ pc[j] = "gif_save"
    /\ \/ Raise(j)
       \/ /\ outfile' = [outfile EXCEPT ![j] = TRUE]
          /\ total' = [total EXCEPT ![j] = 0]
          /\ done' = [done EXCEPT ![j] = 0]
          /\ pc' = [pc EXCEPT ![j] = "return"]
          /\ UNCHANGED <<stores, uploads, ext, exc, calc, client>>

\* resize_video, lines 167-190: the capture is opened (or raises); total is
\* int(cap.get(CAP_PROP_FRAME_COUNT)), whatever the library reports: it
\* need not be the number of frames cap.read() will deliver, and it is 0 or
\* negative for a stream whose length the library does not know.  The
\* writer constructed at line 188 creates output.<ext> when it opens; it
\* can fail to open without raising, and then there is no file.
resize_video_open(j) ==
    /\ pc[j] = "vid_open"
    /\ \/ Raise(j)
       \/ /\ \E n \in (-MaxFrames)..MaxFrames :
                total' = [total EXCEPT ![j] = n]
          /\ done' = [done EXCEPT ![j] = 0]
          /\ \E opened \in BOOLEAN :
                outfile' = [outfile EXCEPT ![j] = opened]
          /\ pc' = [pc EXCEPT ![j] = "vid_frame"]
          /\ UNCHANGED <<stores, uploads, ext, exc, calc, client>>

\* resize_video, lines 192-208: one iteration of the read loop.  cap.read()
\* reports the end of the stream (the loop is left, capture and writer are
\* released and the function returns), or delivers a frame: cv.resize may
\* raise, frame_count += 1, and
\* progress_store[task_id] = int((frame_count / total) * 100), which raises
\* ZeroDivisionError when total is 0.
resize_video_frame(j) ==
    /\ pc[j] = "vid_frame"
    /\ \/ /\ total' = [total EXCEPT ![j] = 0]
          /\ done' = [done EXCEPT ![j] = 0]
          /\ pc' = [pc EXCEPT ![j] = "return"]
          /\ UNCHANGED <<stores, uploads, ext, exc, calc, outfile, client>>
       \/ /\ done[j] < MaxFrames
          /\ \/ Raise(j)
             \/ /\ total[j] = 0
                /\ RaiseAs(j, "ZeroDivisionError")
             \/ /\ total[j] # 0
                /\ done' = [done EXCEPT ![j] = done[j] + 1]
                /\ progress_store' = [progress_store EXCEPT ![j] =
                                        IntProgress(done[j] + 1, total[j])]
                /\ UNCHANGED <<status_store, result_store, uploads, ext, exc, calc, pc,
                               total, outfile, client>>

\* Line 120: result_store[task_id] = output_path.
process_file_result(j) ==
    /\ pc[j] = "return"
    /\ result_store' = [result_store EXCEPT ![j] = j]
    /\ pc' = [pc EXCEPT ![j] = "set_status"]
    /\ UNCHANGED <<progress_store, status_store, uploads, ext, exc, calc, locals,
                   outfile, client>>

\* Line 121: status_store[task_id] = "completed".
process_file_status(j) ==
    /\ pc[j] = "set_status"
    /\ status_store' = [status_store EXCEPT ![j] = "completed"]
    /\ pc' = [pc EXCEPT ![j] = "set_progress"]
    /\ UNCHANGED <<progress_store, result_store, uploads, ext, exc, calc, locals,
                   outfile, client>>

\* process_file_progress with the task id taken from a variable shared by
\* all tasks (the id of the latest upload) instead of its own argument.
process_file_progress_latest(j) ==
    /\ pc[j] = "set_progress"
    /\ progress_store' = [progress_store EXCEPT ![uploads] = 100]
    /\ pc' = [pc EXCEPT ![j] = "end_try"]
    /\ UNCHANGED <<status_store, result_store, uploads, ext, exc, calc, locals,
                   outfile, client>>

\* Lines 122-124: progress_store[task_id] = 100; the task ends.
process_file_progress(j) ==
    /\ pc[j] = "set_progress"
    /\ progress_store' = [progress_store EXCEPT ![j] = 100]
    /\ pc' = [pc EXCEPT ![j] = "end_try"]
    /\ UNCHANGED <<status_store, result_store, uploads, ext, exc, calc, locals,
                   outfile, client>>

\* process_file_except_status that runs the task again instead of recording
\* the failure.
process_file_except_status_retry(j) ==
    /\ pc[j] = "except"
    /\ pc' = [pc EXCEPT ![j] = "queued"]
    /\ exc' = [exc EXCEPT ![j] = ""]
    /\ UNCHANGED <<stores, uploads, ext, calc, locals, outfile, client>>

\* Lines 126-128: the exception is logged (and dropped),
\* status_store[task_id] = "failed".
process_file_except_status(j) ==
    /\ pc[j] = "except"
    /\ status_store' = [status_store EXCEPT ![j] = "failed"]
    /\ pc' = [pc EXCEPT ![j] = "except_progress"]
    /\ exc' = [exc EXCEPT ![j] = ""]
    /\ UNCHANGED <<progress_store, result_store, uploads, ext, calc, locals,
                   outfile, client>>

\* process_file_except_progress that removes the entry of the failed task
\* instead of resetting it.
process_file_except_progress_drop(j) ==
    /\ pc[j] = "except_progress"
    /\ progress_store' = [progress_store EXCEPT ![j] = NoProgress]
    /\ pc' = [pc EXCEPT ![j] = "end_except"]
    /\ UNCHANGED <<status_store, result_store, uploads, ext, exc, calc,
                   locals, outfile, client>>

\* process_file_except_progress without the reset of the progress.
process_file_except_progress_keep(j) ==
    /\ pc[j] = "except_progress"
    /\ pc' = [pc EXCEPT ![j] = "end_except"]
    /\ UNCHANGED <<stores, uploads, ext, exc, calc, locals, outfile, client>>

\* Line 129: progress_store[task_id] = 0; the task ends.
process_file_except_progress(j) ==
    /\ pc[j] = "except_progress"
    /\ progress_store' = [progress_store EXCEPT ![j] = 0]
    /\ pc' = [pc EXCEPT ![j] = "end_except"]
    /\ UNCHANGED <<status_store, result_store, uploads, ext, exc, calc, locals,
                   outfile, client>>

\* ------------------------------------------------------------------------
\* GET /resize/{task_id}/progress

\* Lines 248-253: an unknown key is answered 404; otherwise the status is
\* read (status_store.get(task_id, "unknown")).  Keys are never deleted, so
\* the membership test and the read of the status are one step.
get_progress_status(j) ==
    /\ req = NoReq
    /\ IF progress_store[j] = NoProgress
       THEN /\ resp' = [ep |-> "progress", id |-> j, code |-> 404,
                        status |-> "", progress |-> 0]
            /\ UNCHANGED req
       ELSE /\ req' = [id |-> j,
                       status |-> IF status_store[j] = NoStatus
                                  THEN "unknown" ELSE status_store[j]]
            /\ UNCHANGED resp
    /\ UNCHANGED <<stores, uploads, ext, exc, calc, pc, locals, outfile>>

\* Lines 254-255: progress_store[task_id] is read and the response is sent.
get_progress_respond ==
    /\ req # NoReq
    /\ resp' = [ep |-> "progress", id |-> req.id, code |-> 200,
                status |-> req.status, progress |-> progress_store[req.id]]
    /\ req' = NoReq
    /\ UNCHANGED <<stores, uploads, ext, exc, calc, pc, locals, outfile>>

\* ------------------------------------------------------------------------
\* GET /resize/{task_id}/result

\* get_result without the test of the status: whatever path is recorded is
\* served.
get_result_unchecked(j) ==
    /\ req = NoReq
    /\ resp' = [ep |-> "result", id |-> j,
                code |-> IF result_store[j] = NoResult
                            \/ ~outfile[result_store[j]] THEN 404
                         ELSE 200,
                status |-> "", progress |-> 0]
    /\ UNCHANGED <<stores, uploads, ext, exc, calc, pc, locals, outfile, req>>

\* Lines 263-283: 400 unless the status is "completed"; 404 if no path is
\* recorded or the file does not exist; otherwise the file is streamed.
\* A "completed" status, the recorded path and the file never change once
\* set, so the three reads are one step.
get_result(j) ==
    /\ req = NoReq
    /\ resp' = [ep |-> "result", id |-> j,
                code |-> IF status_store[j] # "completed" THEN 400
                         ELSE IF result_store[j] = NoResult
                                 \/ ~outfile[result_store[j]] THEN 404
                         ELSE 200,
                status |-> "", progress |-> 0]
    /\ UNCHANGED <<stores, uploads, ext, exc, calc, pc, locals, outfile, req>>

\* ------------------------------------------------------------------------
\* Specification

\* The steps of the upload handler for job j.
Handler(j) ==
    \/ resize_media_accept(j)
    \/ resize_media_save(j)
    \/ resize_media_return(j)

\* The steps of the background task of job j.
Executor(j) ==
    \/ process_file_start(j)
    \/ resize_image_read(j)
    \/ resize_image_scale(j)
    \/ resize_image_write(j)
    \/ resize_gif_open(j)
    \/ resize_gif_frame(j)
    \/ resize_gif_save(j)
    \/ resize_video_open(j)
    \/ resize_video_frame(j)
    \/ process_file_result(j)
    \/ process_file_status(j)
    \/ process_file_progress(j)
    \/ process_file_except_status(j)
    \/ process_file_except_progress(j)

Next ==
    \/ \E e \in Exts : resize_media_create(e)
    \/ \E j \in Ids : Handler(j)
    \/ \E j \in Ids : Executor(j)
    \/ \E j \in Ids : get_progress_status(j)
    \/ get_progress_respond
    \/ \E j \in Ids : get_result(j)

Spec == Init /\ [][Next]_vars

\* The job engine alone: uploads and background tasks, no request to the
\* progress or result endpoint.  These requests only read the stores (every
\* step of get_progress and get_result leaves stores, pc and the locals
\* unchanged), so the reachable job states are those of Spec.
NextJobs ==
    \/ \E e \in Exts : resize_media_create(e)
    \/ \E j \in Ids : Handler(j)
    \/ \E j \in Ids : Executor(j)

JobSpec == Init /\ [][NextJobs]_vars

\* The job engine and the result endpoint, without the progress endpoint
\* (whose steps change only req and resp).
NextResult ==
    \/ NextJobs
    \/ \E j \in Ids : get_result(j)

ResultSpec == Init /\ [][NextResult]_vars

\* The computation of the target size by each adapter, on its own: a source
\* size, a percentage and the upscale flag are given, and the adapter of the
\* media kind computes the size it hands to cv.resize.
ScaleInputs ==
    [kind : {"image", "gif", "video"}, w : Dims, h : Dims, p : Pcts,
     up : BOOLEAN, at : {"input"}, size : {<<0, 0>>}]

ScaleInit ==
    /\ JobInit
    /\ sc \in ScaleInputs

scale_image ==
    /\ sc.kind = "image"
    /\ sc.at = "input"
    /\ sc' = [sc EXCEPT !.at = "resized",
                        !.size = image_new_size(sc.w, sc.h, sc.p, sc.up)]
    /\ UNCHANGED <<stores, uploads, ext, pc, locals, outfile, exc, client>>

scale_gif ==
    /\ sc.kind = "gif"
    /\ sc.at = "input"
    /\ sc' = [sc EXCEPT !.at = "resized",
                        !.size = gif_new_size(sc.w, sc.h, sc.p, sc.up)]
    /\ UNCHANGED <<stores, uploads, ext, pc, locals, outfile, exc, client>>

scale_video ==
    /\ sc.kind = "video"
    /\ sc.at = "input"
    /\ sc' = [sc EXCEPT !.at = "resized",
                        !.size = video_new_size(sc.w, sc.h, sc.p, sc.up)]
    /\ UNCHANGED <<stores, uploads, ext, pc, locals, outfile, exc, client>>

NextScale ==
    \/ scale_image
    \/ scale_gif
    \/ scale_video

ScaleSpec == ScaleInit /\ [][NextScale]_vars

\* Worker threads are scheduled fairly and the event loop keeps running its
\* handlers: a step of a job's handler or background task that stays
\* possible is eventually taken.  Requests of clients are never forced.
LiveSpec ==
    /\ Init
    /\ [][Next]_vars
    /\ \A j \in Ids : WF_vars(Handler(j)) /\ WF_vars(Executor(j))

\* The same fairness for the job engine alone.
JobLiveSpec ==
    /\ Init
    /\ [][NextJobs]_vars
    /\ \A j \in Ids : WF_vars(Handler(j)) /\ WF_vars(Executor(j))

\* ------------------------------------------------------------------------
\* Properties

HasJob(j) == progress_store[j] # NoProgress
Terminal == {"completed", "failed"}
IsPoll(r) == r.ep = "progress" /\ r.code = 200

\* C1: the progress values of successive polls of one job, up to the first
\* poll that reports a terminal status, never decrease, and that last poll
\* reports exactly 100 with "completed" and exactly 0 with "failed".  (The
\* drop to 0 of the poll that reports "failed" is the reset the claim
\* itself asks for, and is not counted as a decrease.)
C1_PollsNonDecreasingToTerminal ==
    [][IsPoll(resp') =>
        /\ resp'.status = "completed" => resp'.progress = 100
        /\ resp'.status = "failed" => resp'.progress = 0
        /\ ( /\ IsPoll(resp)
             /\ resp.id = resp'.id
             /\ resp.status = "processing"
             /\ resp'.status # "failed" ) => resp'.progress >= resp.progress
      ]_vars

\* C2: in every state, a job's progress is 100 exactly when its status is
\* "completed".
C2_ProgressHundredIffCompleted ==
    \A j \in Ids :
        HasJob(j) => (progress_store[j] = 100 <=> status_store[j] = "completed")

\* C3: in every state, a job has a recorded result path exactly when its
\* status is "completed".
C3_ResultIffCompleted ==
    \A j \in Ids :
        result_store[j] # NoResult <=> status_store[j] = "completed"

\* C4: an upload with an unsupported extension creates no entry in the
\* progress, status or result store.
C4_UnsupportedNeverRegistered ==
    \A j \in Ids :
        (ext[j] # "" /\ MediaKind(ext[j]) = "unsupported") =>
            /\ progress_store[j] = NoProgress
            /\ status_store[j] = NoStatus
            /\ result_store[j] = NoResult

\* C5: a poll that reports "failed" reports progress 0, and every later
\* poll of that job reports "failed" with progress 0.
C5_FailedPollsStayFailedZero ==
    [][IsPoll(resp') =>
        /\ resp'.status = "failed" => resp'.progress = 0
        /\ (IsPoll(resp) /\ resp.id = resp'.id /\ resp.status = "failed") =>
               (resp'.status = "failed" /\ resp'.progress = 0)
      ]_vars

\* C6: the result endpoint answers a request for a job whose status is not
\* "completed" with the "not completed" error (400); it serves nothing for
\* a job that is processing or failed.  (A "completed" status never
\* changes, so a job that is not completed now was not completed when the
\* last response was sent.)
C6_ResultOnlyWhenCompleted ==
    (resp.ep = "result" /\ status_store[resp.id] # "completed") =>
        resp.code = 400

\* A failed job whose result was requested and refused.
C6_Witness ==
    /\ resp.ep = "result"
    /\ resp.code = 400
    /\ status_store[resp.id] = "failed"
    /\ pc[resp.id] = "end_except"

\* C7: the jobs submitted have pairwise distinct ids (as many entries as
\* uploads), and no step of the background task of a job changes the
\* progress, status or result entry of another job.
C7_DistinctIdsAndIsolation ==
    /\ [](Cardinality({j \in Ids : HasJob(j)}) = uploads)
    /\ [][\A a \in Ids : Executor(a) =>
            \A b \in Ids \ {a} :
                /\ progress_store'[b] = progress_store[b]
                /\ status_store'[b] = status_store[b]
                /\ result_store'[b] = result_store[b]
         ]_vars

\* Two jobs in the middle of their runs at the same time, with different
\* outcomes under way.
C7_Witness ==
    \E a, b \in Ids :
        /\ a # b
        /\ pc[a] = "set_progress"
        /\ pc[b] = "except_progress"
        /\ progress_store[a] # progress_store[b]

\* C8: a job whose adapter raised ends with status "failed" and progress 0,
\* and raising, catching and recording the failure changes neither the
\* entries nor the position of any other job.
C8_ExceptionEndsFailed ==
    /\ [](\A j \in Ids : pc[j] = "end_except" =>
            /\ status_store[j] = "failed"
            /\ progress_store[j] = 0
            /\ result_store[j] = NoResult)
    /\ [][\A j \in Ids :
            (pc'[j] # pc[j]
               /\ pc'[j] \in {"except", "except_progress", "end_except"}) =>
            \A k \in Ids \ {j} :
                /\ progress_store'[k] = progress_store[k]
                /\ status_store'[k] = status_store[k]
                /\ result_store'[k] = result_store[k]
                /\ pc'[k] = pc[k]
         ]_vars

\* A job that failed after it had made progress, beside a job that is still
\* being processed.
C8_Witness ==
    \E j, k \in Ids :
        /\ j # k
        /\ pc[j] = "end_except"
        /\ MediaKind(ext[j]) = "video"
        /\ pc[k] = "img_scale"
        /\ progress_store[k] = 20

\* C9 (under JobLiveSpec, and under LiveSpec): every accepted job, that is
\* every job for which the upload handler has added the background task,
\* eventually has the status "completed" or "failed", whatever the other
\* jobs do.  (An upload whose handler raised before it added the task was
\* answered with a server error: it is not an accepted job and has no
\* executor.)
C9_EveryJobTerminates ==
    \A j \in Ids :
        (pc[j] = "accepted") ~> (status_store[j] \in Terminal)

\* A job submitted later has completed while an earlier one, which went on
\* to fail, has reached its terminal status as well.
C9_Witness ==
    \E a, b \in Ids :
        /\ a < b
        /\ pc[b] = "end_try"
        /\ status_store[b] = "completed"
        /\ pc[a] = "except_progress"
        /\ status_store[a] = "failed"

\* C10: once the status of a job is "completed" or "failed", its status,
\* progress and result path never change.
C10_TerminalNeverChanges ==
    [][\A j \in Ids : status_store[j] \in Terminal =>
            /\ status_store'[j] = status_store[j]
            /\ progress_store'[j] = progress_store[j]
            /\ result_store'[j] = result_store[j]
      ]_vars

Max(a, b) == IF a >= b THEN a ELSE b
Resized == sc.kind # "none" /\ sc.at = "resized"

\* C11 (under ScaleSpec): the target size is (floor(w * e / 100),
\* floor(h * e / 100)) with e = 100 + percentage when upscale is set and
\* e = max(percentage, 1) otherwise, for images, GIF frames and video
\* frames alike.
C11_TargetSizeFormula ==
    Resized =>
        LET e == IF sc.up THEN 100 + sc.p ELSE Max(sc.p, 1)
        IN  sc.size = <<(sc.w * e) \div 100, (sc.h * e) \div 100>>

\* C12 (under ScaleSpec): neither dimension of the target size handed to
\* the resampler is below 1.
C12_TargetNeverZero ==
    Resized => (sc.size[1] >= 1 /\ sc.size[2] >= 1)

\* C13: the stored progress of every job is between 0 and 100.
C13_ProgressInRange ==
    \A j \in Ids :
        HasJob(j) => (progress_store[j] >= 0 /\ progress_store[j] <= 100)

\* C14: a video whose declared frame count is 0 does not fail because of
\* that count (no division by zero reaches the except clause), and its
\* progress stays 0 while its frames are processed.
C14_ZeroFrameCountDoesNotFail ==
    \A j \in Ids :
        /\ exc[j] # "ZeroDivisionError"
        /\ (pc[j] = "vid_frame" /\ total[j] = 0) => progress_store[j] = 0

\* C15: while the status of a job is "processing", no write to its
\* progress lowers it.
C15_ProgressNonDecreasingWhileProcessing ==
    [][\A j \in Ids :
          (status_store[j] = "processing" /\ HasJob(j)) =>
              progress_store'[j] >= progress_store[j]
      ]_vars

\* k * 100 / n rounded to the nearest integer.
Round(k, n) == (200 * k + n) \div (2 * n)

\* C16: after the k-th frame of a GIF or video with totalFrames > 0
\* (1 <= k <= totalFrames), the stored progress is k * 100 / totalFrames
\* rounded to the nearest integer.
C16_ProgressIsRounded ==
    \A j \in Ids :
        ( /\ pc[j] \in {"gif_frame", "gif_save", "vid_frame"}
          /\ total[j] > 0
          /\ done[j] >= 1
          /\ done[j] <= total[j] ) =>
            progress_store[j] = Round(done[j], total[j])

\* The positions of the upload handler before its response.
BeforeReturn == {"create", "saving", "accepted"}

\* C17: when the upload response is produced the job has status
\* "processing", progress 0 and no result, and until then nothing but the
\* upload handler has touched the job: no step of its background task
\* comes before the response (the response with the job id, or the server
\* error of a handler that raised, after which the job has no task).
C17_ResponseBeforeExecution ==
    /\ [](\A j \in Ids : pc[j] \in {"accepted", "queued"} =>
            /\ status_store[j] = "processing"
            /\ progress_store[j] = 0
            /\ result_store[j] = NoResult)
    /\ [][\A j \in Ids : pc[j] \in BeforeReturn =>
            /\ pc'[j] \in BeforeReturn \cup {"queued", "raised"}
            /\ progress_store'[j] = 0
            /\ status_store'[j] \in {NoStatus, "processing"}
            /\ result_store'[j] = NoResult
         ]_vars

\* The response of one job has been sent and its task has not started,
\* while the task of another job is at work.
C17_Witness ==
    \E j, k \in Ids :
        /\ pc[j] = "queued"
        /\ status_store[j] = "processing"
        /\ progress_store[j] = 0
        /\ pc[k] = "gif_frame"
        /\ done[k] = 1

\* The extensions the service supports.
SupportedExts == {"jpg", "jpeg", "png", "gif", "mp4", "mov", "avi", "mkv", "3gp"}

\* C18: a job created for a file with an unsupported extension is never
\* completed and never has a result path; when its task is over, it is
\* failed with progress 0.
C18_UnsupportedJobOnlyFails ==
    \A j \in Ids :
        (HasJob(j) /\ ext[j] \notin SupportedExts) =>
            /\ status_store[j] # "completed"
            /\ result_store[j] = NoResult
            /\ pc[j] \notin {"img_read", "gif_open", "vid_open", "return",
                             "set_status", "set_progress", "end_try"}
            /\ pc[j] = "end_except" =>
                   (status_store[j] = "failed" /\ progress_store[j] = 0)

\* A .txt job that has ended failed.
C18_Witness ==
    \E j \in Ids :
        /\ ext[j] = "txt"
        /\ pc[j] = "end_except"
        /\ status_store[j] = "failed"
        /\ progress_store[j] = 0

\* The upload response with the id of job j has been sent.
Returned(j) == pc[j] \notin {"none", "create", "saving", "accepted", "raised"}

\* C19 (under Spec): a request to the progress endpoint for an id that was
\* not issued is answered 404; a request for an id that an upload has
\* returned is never answered 404 and reads a status that is "processing",
\* "completed" or "failed"; and the answer carries that id and status.
C19_ProgressEndpointAnswers ==
    [][ /\ \A j \in Ids : get_progress_status(j) =>
              /\ pc[j] = "none" =>
                     (req' = NoReq /\ resp'.ep = "progress"
                        /\ resp'.id = j /\ resp'.code = 404)
              /\ Returned(j) =>
                     (req'.id = j
                        /\ req'.status \in {"processing", "completed", "failed"})
        /\ get_progress_respond =>
              (resp'.code = 200 /\ resp'.id = req.id
                 /\ resp'.status = req.status)
      ]_vars

\* The progress endpoint has answered for a completed job.
C19_Witness ==
    /\ resp.ep = "progress"
    /\ resp.code = 200
    /\ resp.status = "completed"
    /\ resp.progress = 100
    /\ pc[resp.id] = "end_try"

====
